---------------------------- MODULE Spec2Model ----------------------------
(***************************************************************************)
(* Secure P2P file share (WebRTC + Firestore signaling).                   *)
(*                                                                         *)
(* Two browser instances of the App component, "A" and "B", each with its  *)
(* React state and refs, the Firestore signaling mailboxes, and the        *)
(* RTCPeerConnection / RTCDataChannel objects the component creates.       *)
(* Every `await` on a crypto, WebRTC or Firestore promise is a suspension  *)
(* point: the statements between two awaits form one atomic step.          *)
(***************************************************************************)
EXTENDS Integers, Sequences, FiniteSets, TLC

\* ------------------------------------------------------------------ bounds
MaxConnects == 2
MaxEnvConnects == 1
MaxForged == 1
MaxCandidates == 1
MaxFaults == 1
MaxSelects == 2
MaxSends == 2
MaxEnvSelects == 1
MaxEnvSends == 1
\* the longest selectable file, and the chunk size that stands for 16 * 1024
MaxLen == 3
ChunkSize == 2

\* ------------------------------------------------------------- identities
Peers == {"A", "B"}
Mallory == "M"

Other(p) == IF p = "A" THEN "B" ELSE "A"

\* null of a ref that holds a keypair or a peer connection
Null == 0
\* a public key blob importKey rejects, and a well-formed key of a third party
BadKey == -1
MalloryKey == -2
\* a session description setRemoteDescription rejects
BadSdp == -1

NoKey == {}

\* RTCDataChannel objects of peer connection g: the one createDataChannel
\* returned, and the one the datachannel event announced
NoChan == [pc |-> 0, end |-> "none"]
OwnChan(g) == [pc |-> g, end |-> "own"]
RemChan(g) == [pc |-> g, end |-> "rem"]

NoDoc == [type |-> "none", sender |-> "", target |-> "", pub |-> 0, sdp |-> 0]

VARIABLES
    connectionStatus,   \* [Peers -> STRING]        useState('disconnected')
    message,            \* [Peers -> STRING]        useState(...)
    cryptoKeyPair,      \* [Peers -> Nat]           useRef(null)
    peerConnection,     \* [Peers -> Nat]           useRef(null)
    dataChannel,        \* [Peers -> channel]       useRef(null)
    symmetricKey,       \* [Peers -> key]           useRef(null)
    pcs,                \* Seq of RTCPeerConnection objects ever created
    mailbox,            \* [Peers -> SUBSET doc]    the signaling collections
    tasks,              \* running async invocations (connectToPeer, onSnapshot)
    delCount,           \* [Peers -> [doc -> Nat]]  deleteDoc calls per document
    handled,            \* [Peers -> SUBSET doc]    documents whose handling finished
    nConnects, nForged, nCandidates, nFaults,  \* how often each bounded event happened
    file,                  \* [Peers -> file]      useState(null)
    transferProgress,      \* [Peers -> <<n, d>>]  useState(0), the fraction n / d
    receivedFile,          \* [Peers -> file]      useState(null)
    receiveBuffer,         \* [Peers -> Seq]       useRef([])
    receivedFileMetadata,  \* [Peers -> metadata]  useRef(null)
    receivedSize,          \* [Peers -> Nat]       useRef(0)
    fileHistory,           \* [Peers -> Seq]       the fileHistory collections
    wire,                  \* messages sent on a data channel and not yet received
    transfers,             \* running async invocations (reader.onload, onmessage)
    nSelects, nSends

\* the state of the file transfer
xfer == <<file, transferProgress, receivedFile, receiveBuffer, receivedFileMetadata,
          receivedSize, fileHistory, wire, transfers, nSelects, nSends>>

vars == <<connectionStatus, message, cryptoKeyPair, peerConnection, dataChannel,
          symmetricKey, pcs, mailbox, tasks, delCount, handled,
          nConnects, nForged, nCandidates, nFaults, xfer>>

refs == <<cryptoKeyPair, peerConnection, dataChannel, symmetricKey>>
counters == <<nConnects, nForged, nCandidates, nFaults>>

\* the state of the handshake, but for the status line
shake == <<connectionStatus, refs, pcs, mailbox, tasks, delCount, handled, counters>>

\* ------------------------------------------------------------------ files
\* a File of n bytes, and the null of a file
File(n) == [name |-> "f", type |-> "bin", data |-> [i \in 1..n |-> i]]
Files == {File(n) : n \in 0..MaxLen}
NoFile == [name |-> "", type |-> "", data |-> << >>]

\* hashFile: the SHA-256 digest, as hex, of the bytes of a blob; distinct
\* contents have distinct digests
HashFile(data) == <<"sha256", data>>

\* the parsed fileMetadata message, and the null of the ref that holds it
Metadata(f, hash) ==
    [type |-> "fileMetadata", fileName |-> f.name, fileSize |-> Len(f.data),
     fileType |-> f.type, fileHash |-> hash]
NoMeta ==
    [type |-> "", fileName |-> "", fileSize |-> 0, fileType |-> "", fileHash |-> << >>]

\* crypto.subtle.encrypt (AES-GCM): the ciphertext with its tag
Encrypt(key, iv, chunk) == [key |-> key, iv |-> iv, data |-> chunk]

\* crypto.subtle.decrypt resolves: the tag verifies under the key and the iv
CanDecrypt(key, iv, enc) == enc.key = key /\ enc.iv = iv

\* new Blob(receiveBuffer.current): the chunks one after the other
RECURSIVE Concat(_)
Concat(chunks) ==
    IF chunks = << >> THEN << >> ELSE Head(chunks) \o Concat(Tail(chunks))

\* fileData.slice(offset, offset + chunkSize)
Slice(data, offset) ==
    SubSeq(data, offset + 1,
           IF offset + ChunkSize < Len(data) THEN offset + ChunkSize ELSE Len(data))

\* ---------------------------------------------------------- key agreement
\* crypto.subtle.deriveBits (ECDH) followed by importKey('raw', ..., AES-GCM):
\* the secret of a private key and a public key is that of the unordered pair
\* of keypairs.
DeriveSharedKey(priv, pub) == {priv, pub}

\* crypto.subtle.importKey('jwk', data.publicKey, ECDH P-256) resolves
ImportsOk(pub) == pub # BadKey

\* ------------------------------------------------------- RTCPeerConnection
\* new RTCPeerConnection(): signaling state stable, no description applied
NewPc(p, peerId) ==
    [owner |-> p, peer |-> peerId, sig |-> "stable", rem |-> 0, est |-> FALSE,
     conn |-> "new", och |-> "connecting", rch |-> "none"]

\* both ends completed the offer/answer exchange with each other's description
Linked(g, h) ==
    /\ g \in 1..Len(pcs) /\ h \in 1..Len(pcs)
    /\ pcs[g].est /\ pcs[h].est
    /\ pcs[g].rem = h /\ pcs[h].rem = g

IsLinked(g) == \E h \in 1..Len(pcs) : Linked(g, h)

\* createOffer() resolves on the connection the ref holds
CanCreateOffer(g) ==
    g # Null /\ pcs[g].sig \in {"stable", "have-local-offer"}

\* setLocalDescription(offer) resolves: the offer is the one this connection
\* created last
CanSetLocalOffer(g, off) ==
    g # Null /\ g = off /\ pcs[g].sig \in {"stable", "have-local-offer"}

\* setRemoteDescription(data.offer) resolves: a well-formed offer on a
\* connection that has not completed a negotiation with another endpoint
CanSetRemoteOffer(g, sdp) ==
    g # Null /\ sdp # BadSdp /\ ~pcs[g].est
    /\ pcs[g].sig \in {"stable", "have-remote-offer"}

\* createAnswer() resolves
CanCreateAnswer(g) ==
    g # Null /\ pcs[g].sig = "have-remote-offer"

\* setLocalDescription(answer) resolves
CanSetLocalAnswer(g, ans) ==
    g # Null /\ g = ans /\ pcs[g].sig = "have-remote-offer"

\* setRemoteDescription(data.answer) resolves
CanSetRemoteAnswer(g, sdp) ==
    g # Null /\ sdp # BadSdp /\ ~pcs[g].est
    /\ pcs[g].sig = "have-local-offer"

SetPc(g, r) == pcs' = [pcs EXCEPT ![g] = r]

\* ----------------------------------------------------------------- tasks
ConnectTask(n, p, peerId, st) ==
    [k |-> "connect", n |-> n, p |-> p, doc |-> NoDoc, peer |-> peerId,
     at |-> "c_gen", key |-> NoKey, off |-> 0, pub |-> 0, st0 |-> st]

ListenTask(p, d, label) ==
    [k |-> "listen", n |-> 0, p |-> p, doc |-> d, peer |-> "",
     at |-> label, key |-> NoKey, off |-> 0, pub |-> 0, st0 |-> connectionStatus[p]]

Goto(t, t2) == tasks' = (tasks \ {t}) \cup {t2}
End(t) == tasks' = tasks \ {t}

SetStatus(p, s) == connectionStatus' = [connectionStatus EXCEPT ![p] = s]

\* The texts of setMessage that report a failure.
FailureMessages ==
    { "Failed to process signaling message. See console.",
      "Failed to connect to peer. Check the ID and try again.",
      "Please enter a valid Peer ID first.",
      "Error decrypting file. Transfer failed.",
      "File transfer complete, but verification failed.",
      "Please select a file and ensure you are connected to a peer.",
      "Error: Symmetric key not established.",
      "Error during file transfer. Check connection and try again." }

\* setMessage(m): the status line holds the text set last; the texts that
\* report no failure are not told apart.
SetMessage(p, m) ==
    message' = [message EXCEPT ![p] = IF m \in FailureMessages THEN m ELSE "ok"]

\* ------------------------------------------------------------------- Init
Init ==
    /\ connectionStatus = [p \in Peers |-> "disconnected"]
    /\ message = [p \in Peers |-> "ok"]
    /\ cryptoKeyPair = [p \in Peers |-> Null]
    /\ peerConnection = [p \in Peers |-> Null]
    /\ dataChannel = [p \in Peers |-> NoChan]
    /\ symmetricKey = [p \in Peers |-> NoKey]
    /\ pcs = << >>
    /\ mailbox = [p \in Peers |-> {}]
    /\ tasks = {}
    /\ delCount = [p \in Peers |-> << >>]
    /\ handled = [p \in Peers |-> {}]
    /\ nConnects = 0 /\ nForged = 0 /\ nCandidates = 0 /\ nFaults = 0
    /\ file = [p \in Peers |-> NoFile]
    /\ transferProgress = [p \in Peers |-> <<0, 1>>]
    /\ receivedFile = [p \in Peers |-> NoFile]
    /\ receiveBuffer = [p \in Peers |-> << >>]
    /\ receivedFileMetadata = [p \in Peers |-> NoMeta]
    /\ receivedSize = [p \in Peers |-> 0]
    /\ fileHistory = [p \in Peers |-> << >>]
    /\ wire = << >>
    /\ transfers = {}
    /\ nSelects = 0 /\ nSends = 0

\* ------------------------------------------------- setupPeerConnection
\* The statements of setupPeerConnection after `await generateKey` resolved:
\* a fresh keypair, a fresh RTCPeerConnection and the data channel it creates,
\* with the handlers of setupDataChannelEvents on that channel.
SetupPeerConnection(p, peerId) ==
    LET g == Len(pcs) + 1 IN
    /\ cryptoKeyPair' = [cryptoKeyPair EXCEPT ![p] = g]
    /\ peerConnection' = [peerConnection EXCEPT ![p] = g]
    /\ dataChannel' = [dataChannel EXCEPT ![p] = OwnChan(g)]
    /\ pcs' = Append(pcs, NewPc(p, peerId))

\* ---------------------------------------------------------- connectToPeer
\* connectToPeer up to `await crypto.subtle.generateKey` inside
\* setupPeerConnection.
ConnectToPeer(p, peerId) ==
    /\ nConnects < MaxConnects
    /\ nConnects' = nConnects + 1
    /\ SetMessage(p, "Creating connection offer...")
    /\ SetStatus(p, "connecting")
    /\ tasks' = tasks \cup {ConnectTask(nConnects + 1, p, peerId, connectionStatus[p])}
    /\ UNCHANGED <<refs, pcs, mailbox, delCount, handled, nForged, nCandidates, nFaults>>

\* the catch block of connectToPeer
ConnectCatch(t) ==
    /\ SetMessage(t.p, "Failed to connect to peer. Check the ID and try again.")
    /\ SetStatus(t.p, "disconnected")
    /\ End(t)

\* generateKey resolved: the rest of setupPeerConnection, then exportKey of
\* the public key the ref holds now.
ConnectSetup(t) ==
    /\ t.k = "connect" /\ t.at = "c_gen"
    /\ SetupPeerConnection(t.p, t.peer)
    /\ Goto(t, [t EXCEPT !.at = "c_exp", !.pub = Len(pcs) + 1])
    /\ UNCHANGED <<connectionStatus, message, symmetricKey, mailbox, delCount, handled, counters>>

\* exportKey resolved: peerConnection.current.createOffer()
ConnectCreateOffer(t) ==
    /\ t.k = "connect" /\ t.at = "c_exp"
    /\ IF CanCreateOffer(peerConnection[t.p])
       THEN /\ Goto(t, [t EXCEPT !.at = "c_offer", !.off = peerConnection[t.p]])
            /\ UNCHANGED <<connectionStatus, message>>
       ELSE ConnectCatch(t)
    /\ UNCHANGED <<refs, pcs, mailbox, delCount, handled, counters>>

\* createOffer resolved: peerConnection.current.setLocalDescription(offer)
ConnectSetLocal(t) ==
    /\ t.k = "connect" /\ t.at = "c_offer"
    /\ LET g == peerConnection[t.p] IN
       IF CanSetLocalOffer(g, t.off)
       THEN /\ SetPc(g, [pcs[g] EXCEPT !.sig = "have-local-offer"])
            /\ Goto(t, [t EXCEPT !.at = "c_sld"])
            /\ UNCHANGED <<connectionStatus, message>>
       ELSE /\ ConnectCatch(t)
            /\ UNCHANGED pcs
    /\ UNCHANGED <<refs, mailbox, delCount, handled, counters>>

OfferDoc(t) ==
    [type |-> "offer", sender |-> t.p, target |-> t.peer, pub |-> t.pub, sdp |-> t.off]

\* setLocalDescription resolved: addDoc of the offer into the peer's mailbox,
\* then setConnectedPeerId and the status message.
ConnectPublish(t) ==
    /\ t.k = "connect" /\ t.at = "c_sld"
    /\ IF t.peer \in Peers
       THEN mailbox' = [mailbox EXCEPT ![t.peer] = @ \cup {OfferDoc(t)}]
       ELSE UNCHANGED mailbox
    /\ SetMessage(t.p, "Offer sent. Waiting for peer to accept...")
    /\ End(t)
    /\ UNCHANGED <<connectionStatus, refs, pcs, delCount, handled, counters>>

\* ------------------------------------------------------ signaling listener
\* a faulty variant of DeliverLabel: no check of senderId against userId
DeliverLabelNoEcho(p, d) ==
    IF d.type = "offer" THEN "offer"
    ELSE IF d.type = "answer" /\ d.target = p THEN "answer"
    ELSE IF d.type = "candidate" /\ d.target = p THEN "candidate"
    ELSE "skip"

\* The branch the onSnapshot callback takes for an 'added' document.
DeliverLabel(p, d) ==
    IF d.sender = p THEN "echo"
    ELSE IF d.type = "offer" THEN "offer"
    ELSE IF d.type = "answer" /\ d.target = p THEN "answer"
    ELSE IF d.type = "candidate" /\ d.target = p THEN "candidate"
    ELSE "skip"

\* deleteDoc(doc(db, signalingCollectionPath, change.doc.id)): the local
\* cache drops the document at the call.
DeleteDoc(p, d) ==
    /\ mailbox' = [mailbox EXCEPT ![p] = @ \ {d}]
    /\ delCount' = [delCount EXCEPT ![p] =
                      IF d \in DOMAIN @ THEN [@ EXCEPT ![d] = @ + 1]
                      ELSE @ @@ (d :> 1)]

\* the handling of a document is over
Finish(p, d) == handled' = [handled EXCEPT ![p] = @ \cup {d}]

\* the self-echo branch: deleteDoc, then continue
EchoDelete(p, d) ==
    /\ DeleteDoc(p, d)
    /\ Finish(p, d)

\* a faulty variant of FinallyDelete: the handling ends without deleteDoc
FinallyDeleteSkipped(t) ==
    /\ Finish(t.p, t.doc)
    /\ End(t)
    /\ UNCHANGED <<mailbox, delCount>>

\* the finally block: deleteDoc, after which the handling of the change is over
FinallyDelete(t) ==
    /\ DeleteDoc(t.p, t.doc)
    /\ Finish(t.p, t.doc)
    /\ End(t)

\* a faulty variant of ListenCatch: the error is swallowed without a message
ListenCatchSilent(t) ==
    /\ UNCHANGED message
    /\ FinallyDelete(t)

\* the catch block of the listener, which falls into the finally block
ListenCatch(t) ==
    /\ SetMessage(t.p, "Failed to process signaling message. See console.")
    /\ FinallyDelete(t)

Deliverable(p, d) ==
    /\ d \in mailbox[p]
    /\ d \notin handled[p]
    /\ \A t \in tasks : ~(t.k = "listen" /\ t.p = p /\ t.doc = d)

\* The snapshot callback on an added document the owner wrote itself.
SnapshotEcho(p, d) ==
    /\ Deliverable(p, d) /\ DeliverLabel(p, d) = "echo"
    /\ EchoDelete(p, d)
    /\ UNCHANGED <<connectionStatus, message, refs, pcs, tasks, counters>>

\* The snapshot callback on an added document no branch takes: the try block
\* is empty and the finally block deletes it.
SnapshotSkip(p, d) ==
    /\ Deliverable(p, d) /\ DeliverLabel(p, d) = "skip"
    /\ DeleteDoc(p, d)
    /\ Finish(p, d)
    /\ UNCHANGED <<connectionStatus, message, refs, pcs, tasks, counters>>

\* The snapshot callback on an offer, up to `await importKey`: generateKey
\* resolved and setupPeerConnection ran.
SnapshotOffer(p, d) ==
    /\ Deliverable(p, d) /\ DeliverLabel(p, d) = "offer"
    /\ SetupPeerConnection(p, d.sender)
    /\ tasks' = tasks \cup {ListenTask(p, d, "o_imp")}
    /\ UNCHANGED <<connectionStatus, message, symmetricKey, mailbox, delCount, handled, counters>>

\* importKey settled: deriveBits with the private key the ref holds now, and
\* importKey('raw') of the derived bits
OfferImported(t) ==
    /\ t.k = "listen" /\ t.at = "o_imp"
    /\ IF ImportsOk(t.doc.pub) /\ cryptoKeyPair[t.p] # Null
       THEN /\ Goto(t, [t EXCEPT !.at = "o_der",
                                 !.key = DeriveSharedKey(cryptoKeyPair[t.p], t.doc.pub)])
            /\ UNCHANGED <<message, mailbox, delCount, handled>>
       ELSE ListenCatch(t)
    /\ UNCHANGED <<connectionStatus, refs, pcs, counters>>

\* The key is installed, then setRemoteDescription(data.offer) is called on
\* the connection the ref holds now.  An offer applied over a pending local
\* offer is rolled back or refused, as the browser decides.
OfferKeyed(t) ==
    /\ t.k = "listen" /\ t.at = "o_der"
    /\ symmetricKey' = [symmetricKey EXCEPT ![t.p] = t.key]
    /\ LET g == peerConnection[t.p] IN
       \/ /\ CanSetRemoteOffer(g, t.doc.sdp)
          /\ SetPc(g, [pcs[g] EXCEPT !.sig = "have-remote-offer", !.rem = t.doc.sdp])
          /\ Goto(t, [t EXCEPT !.at = "o_srd"])
          /\ UNCHANGED <<message, mailbox, delCount, handled>>
       \/ /\ g # Null /\ t.doc.sdp # BadSdp /\ ~pcs[g].est
          /\ pcs[g].sig = "have-local-offer"
          /\ SetPc(g, [pcs[g] EXCEPT !.sig = "have-remote-offer", !.rem = t.doc.sdp])
          /\ Goto(t, [t EXCEPT !.at = "o_srd"])
          /\ UNCHANGED <<message, mailbox, delCount, handled>>
       \/ /\ ~CanSetRemoteOffer(g, t.doc.sdp)
          /\ ListenCatch(t)
          /\ UNCHANGED pcs
    /\ UNCHANGED <<connectionStatus, cryptoKeyPair, peerConnection, dataChannel, counters>>

\* setRemoteDescription resolved: peerConnection.current.createAnswer()
OfferCreateAnswer(t) ==
    /\ t.k = "listen" /\ t.at = "o_srd"
    /\ IF CanCreateAnswer(peerConnection[t.p])
       THEN /\ Goto(t, [t EXCEPT !.at = "o_ans", !.off = peerConnection[t.p]])
            /\ UNCHANGED <<message, mailbox, delCount, handled>>
       ELSE ListenCatch(t)
    /\ UNCHANGED <<connectionStatus, refs, pcs, counters>>

\* createAnswer resolved: peerConnection.current.setLocalDescription(answer)
OfferSetLocal(t) ==
    /\ t.k = "listen" /\ t.at = "o_ans"
    /\ LET g == peerConnection[t.p] IN
       IF CanSetLocalAnswer(g, t.off)
       THEN /\ SetPc(g, [pcs[g] EXCEPT !.sig = "stable", !.est = TRUE])
            /\ Goto(t, [t EXCEPT !.at = "o_sld"])
            /\ UNCHANGED <<message, mailbox, delCount, handled>>
       ELSE /\ ListenCatch(t)
            /\ UNCHANGED pcs
    /\ UNCHANGED <<connectionStatus, refs, counters>>

\* setLocalDescription resolved: exportKey of the public key the ref holds now
OfferExport(t) ==
    /\ t.k = "listen" /\ t.at = "o_sld"
    /\ Goto(t, [t EXCEPT !.at = "o_exp", !.pub = cryptoKeyPair[t.p]])
    /\ UNCHANGED <<connectionStatus, message, refs, pcs, mailbox, delCount, handled, counters>>

\* a faulty variant of AnswerDoc: the answer carries the caller's public key
\* back instead of the answerer's
AnswerDocEchoedKey(t) ==
    [type |-> "answer", sender |-> t.p, target |-> t.doc.sender, pub |-> t.doc.pub, sdp |-> t.off]

AnswerDoc(t) ==
    [type |-> "answer", sender |-> t.p, target |-> t.doc.sender, pub |-> t.pub, sdp |-> t.off]

\* exportKey resolved: addDoc of the answer into the sender's mailbox
OfferPublish(t) ==
    /\ t.k = "listen" /\ t.at = "o_exp"
    /\ IF t.doc.sender \in Peers
       THEN mailbox' = [mailbox EXCEPT ![t.doc.sender] = @ \cup {AnswerDoc(t)}]
       ELSE UNCHANGED mailbox
    /\ Goto(t, [t EXCEPT !.at = "o_add"])
    /\ UNCHANGED <<connectionStatus, message, refs, pcs, delCount, handled, counters>>

\* addDoc resolved: setConnectedPeerId, the status message, the finally block
OfferDone(t) ==
    /\ t.k = "listen" /\ t.at = "o_add"
    /\ SetMessage(t.p, "Received offer, created answer and derived shared key.")
    /\ FinallyDelete(t)
    /\ UNCHANGED <<connectionStatus, refs, pcs, counters>>

\* The snapshot callback on an answer addressed to the owner, up to
\* `await deriveBits`: importKey settled, deriveBits with the private key the
\* ref holds now, and importKey('raw') of the derived bits.
SnapshotAnswer(p, d) ==
    /\ Deliverable(p, d) /\ DeliverLabel(p, d) = "answer"
    /\ IF ImportsOk(d.pub) /\ cryptoKeyPair[p] # Null
       THEN /\ tasks' = tasks \cup
                  {[ListenTask(p, d, "a_der") EXCEPT
                       !.key = DeriveSharedKey(cryptoKeyPair[p], d.pub)]}
            /\ UNCHANGED <<message, mailbox, delCount, handled>>
       ELSE /\ SetMessage(p, "Failed to process signaling message. See console.")
            /\ DeleteDoc(p, d)
            /\ Finish(p, d)
            /\ UNCHANGED tasks
    /\ UNCHANGED <<connectionStatus, refs, pcs, counters>>

\* The key is installed, then setRemoteDescription(data.answer) is called on
\* the connection the ref holds now.
AnswerKeyed(t) ==
    /\ t.k = "listen" /\ t.at = "a_der"
    /\ symmetricKey' = [symmetricKey EXCEPT ![t.p] = t.key]
    /\ LET g == peerConnection[t.p] IN
       IF CanSetRemoteAnswer(g, t.doc.sdp)
       THEN /\ SetPc(g, [pcs[g] EXCEPT !.sig = "stable", !.rem = t.doc.sdp, !.est = TRUE])
            /\ Goto(t, [t EXCEPT !.at = "a_srd"])
            /\ UNCHANGED <<message, mailbox, delCount, handled>>
       ELSE /\ ListenCatch(t)
            /\ UNCHANGED pcs
    /\ UNCHANGED <<connectionStatus, cryptoKeyPair, peerConnection, dataChannel, counters>>

\* setRemoteDescription resolved: the status message, the finally block
AnswerDone(t) ==
    /\ t.k = "listen" /\ t.at = "a_srd"
    /\ SetMessage(t.p, "Received answer, connection established and shared key derived.")
    /\ FinallyDelete(t)
    /\ UNCHANGED <<connectionStatus, refs, pcs, counters>>

\* The snapshot callback on a candidate addressed to the owner:
\* peerConnection.current?.addIceCandidate(data.candidate), which rejects on a
\* connection without a remote description.
SnapshotCandidate(p, d) ==
    /\ Deliverable(p, d) /\ DeliverLabel(p, d) = "candidate"
    /\ LET g == peerConnection[p] IN
       IF g = Null \/ pcs[g].rem # 0
       THEN UNCHANGED message
       ELSE SetMessage(p, "Failed to process signaling message. See console.")
    /\ DeleteDoc(p, d)
    /\ Finish(p, d)
    /\ UNCHANGED <<connectionStatus, refs, pcs, tasks, counters>>

Snapshot(p, d) ==
    \/ SnapshotEcho(p, d)
    \/ SnapshotSkip(p, d)
    \/ SnapshotOffer(p, d)
    \/ SnapshotAnswer(p, d)
    \/ SnapshotCandidate(p, d)

\* --------------------------------------------------- transport callbacks
\* dataChannel.current.onopen
OnOpen(p) ==
    /\ SetStatus(p, "connected")
    /\ SetMessage(p, "Connection established. You can now send or receive files.")

\* dataChannel.current.onclose
OnClose(p) ==
    /\ SetStatus(p, "disconnected")
    /\ SetMessage(p, "Peer disconnected. Click \"Connect\" to re-establish.")
    /\ peerConnection' = [peerConnection EXCEPT ![p] = Null]
    /\ dataChannel' = [dataChannel EXCEPT ![p] = NoChan]
    /\ symmetricKey' = [symmetricKey EXCEPT ![p] = NoKey]

\* peerConnection.current.onconnectionstatechange, fired by connection g: it
\* reads the connectionState of the connection the ref holds (after the
\* change), and throws on a null ref.
OnConnectionStateChange(p) ==
    IF peerConnection[p] # Null
    THEN SetStatus(p, pcs'[peerConnection[p]].conn)
    ELSE UNCHANGED connectionStatus

\* The channel createDataChannel returned can open: the peer acknowledged it.
CanOpen(g) ==
    /\ pcs[g].och = "connecting" /\ pcs[g].rch # "closed"
    /\ \E h \in 1..Len(pcs) : Linked(g, h) /\ pcs[h].rch = "open"

\* The channel the peer created can be announced.
CanAnnounce(g) ==
    /\ pcs[g].rch = "none" /\ pcs[g].och # "closed"
    /\ \E h \in 1..Len(pcs) : Linked(g, h) /\ pcs[h].och # "closed"

\* The channel createDataChannel returned opens.
ChannelOpen(g) ==
    /\ g \in 1..Len(pcs)
    /\ CanOpen(g)
    /\ SetPc(g, [pcs[g] EXCEPT !.och = "open"])
    /\ OnOpen(pcs[g].owner)
    /\ UNCHANGED <<refs, mailbox, tasks, delCount, handled, counters>>

\* peerConnection.current.ondatachannel of connection g: the channel the peer
\* created is announced, replaces the ref, gets the handlers of
\* setupDataChannelEvents and reports open.
DataChannelEvent(g) ==
    /\ g \in 1..Len(pcs)
    /\ CanAnnounce(g)
    /\ SetPc(g, [pcs[g] EXCEPT !.rch = "open"])
    /\ dataChannel' = [dataChannel EXCEPT ![pcs[g].owner] = RemChan(g)]
    /\ OnOpen(pcs[g].owner)
    /\ UNCHANGED <<cryptoKeyPair, peerConnection, symmetricKey, mailbox, tasks,
                   delCount, handled, counters>>

\* An open channel of connection g closes (the peer went away, the network
\* failed): its onclose handler runs.
ChannelClose(g, end) ==
    /\ g \in 1..Len(pcs)
    /\ nFaults < MaxFaults
    /\ \/ /\ end = "own" /\ pcs[g].och = "open"
          /\ SetPc(g, [pcs[g] EXCEPT !.och = "closed"])
       \/ /\ end = "rem" /\ pcs[g].rch = "open"
          /\ SetPc(g, [pcs[g] EXCEPT !.rch = "closed"])
    /\ nFaults' = nFaults + 1
    /\ OnClose(pcs[g].owner)
    /\ UNCHANGED <<cryptoKeyPair, mailbox, tasks, delCount, handled,
                   nConnects, nForged, nCandidates>>

\* The connectionState values connection g can change to: the ICE and DTLS
\* transports start once a remote description is applied, come up when both
\* ends completed the exchange, and may fail or lose connectivity.
NextConnStates(g) ==
    CASE pcs[g].conn = "new" ->
           IF pcs[g].rem # 0 THEN {"connecting"} ELSE {}
      [] pcs[g].conn = "connecting" ->
           (IF IsLinked(g) THEN {"connected"} ELSE {}) \cup {"failed"}
      [] pcs[g].conn = "connected" -> {"disconnected"}
      [] pcs[g].conn = "disconnected" -> {"connected", "failed"}
      [] OTHER -> {}

\* connection g changes its connectionState and fires connectionstatechange
ConnectionStateChange(g, s) ==
    /\ g \in 1..Len(pcs)
    /\ s \in NextConnStates(g)
    /\ IF s \in {"failed", "disconnected"}
       THEN nFaults < MaxFaults /\ nFaults' = nFaults + 1
       ELSE UNCHANGED nFaults
    /\ SetPc(g, [pcs[g] EXCEPT !.conn = s])
    /\ OnConnectionStateChange(pcs[g].owner)
    /\ UNCHANGED <<message, refs, mailbox, tasks, delCount, handled,
                   nConnects, nForged, nCandidates>>

CandidateDoc(g) ==
    [type |-> "candidate", sender |-> pcs[g].owner, target |-> pcs[g].peer,
     pub |-> 0, sdp |-> g]

\* peerConnection.current.onicecandidate of connection g, which gathers once
\* a local description is set: addDoc of the candidate into the mailbox of
\* the peer id setupPeerConnection was called with.
IceCandidate(g) ==
    /\ g \in 1..Len(pcs)
    /\ nCandidates < MaxCandidates
    /\ pcs[g].sig = "have-local-offer" \/ pcs[g].est
    /\ pcs[g].peer \in Peers
    /\ CandidateDoc(g) \notin mailbox[pcs[g].peer] \cup handled[pcs[g].peer]
    /\ nCandidates' = nCandidates + 1
    /\ mailbox' = [mailbox EXCEPT ![pcs[g].peer] = @ \cup {CandidateDoc(g)}]
    /\ UNCHANGED <<connectionStatus, message, refs, pcs, tasks, delCount, handled,
                   nConnects, nForged, nFaults>>

\* ------------------------------------------------------ untrusted relay
\* Documents a third party can write into the mailbox of p.
ForgedDocs(p) ==
    { [type |-> "offer",  sender |-> Mallory, target |-> p, pub |-> BadKey, sdp |-> BadSdp],
      [type |-> "offer",  sender |-> Mallory, target |-> p, pub |-> MalloryKey, sdp |-> BadSdp],
      [type |-> "answer", sender |-> Mallory, target |-> p, pub |-> MalloryKey, sdp |-> BadSdp],
      [type |-> "answer", sender |-> Mallory, target |-> Mallory, pub |-> MalloryKey, sdp |-> BadSdp],
      [type |-> "junk",   sender |-> Mallory, target |-> p, pub |-> 0, sdp |-> 0] }

Forge(p, d) ==
    /\ nForged < MaxForged
    /\ d \in ForgedDocs(p)
    /\ d \notin mailbox[p] \cup handled[p]
    /\ nForged' = nForged + 1
    /\ mailbox' = [mailbox EXCEPT ![p] = @ \cup {d}]
    /\ UNCHANGED <<connectionStatus, message, refs, pcs, tasks, delCount, handled,
                   nConnects, nCandidates, nFaults>>

\* ---------------------------------------------------------- file transfer
\* readyState of a data channel object
ReadyState(ch) ==
    IF ch.end = "own" THEN pcs[ch.pc].och ELSE pcs[ch.pc].rch

\* the data channel object at the other end of an open channel
Counterpart(ch) ==
    IF ch.end = "own" THEN RemChan(pcs[ch.pc].rem) ELSE OwnChan(pcs[ch.pc].rem)

\* dataChannel.current.send(m) returns: the ref holds an open channel
CanSend(p) ==
    dataChannel[p] # NoChan /\ ReadyState(dataChannel[p]) = "open"

\* dataChannel.current.send(m)
Send(p, m) ==
    wire' = Append(wire, [to |-> Counterpart(dataChannel[p]), m |-> m])

SetProgress(p, n, d) ==
    transferProgress' = [transferProgress EXCEPT ![p] = <<n, d>>]

\* handleFileChange / handleDrop with a file
SelectFile(p, f) ==
    /\ nSelects < MaxSelects
    /\ nSelects' = nSelects + 1
    /\ file' = [file EXCEPT ![p] = f]
    /\ SetMessage(p, "File selected: f")
    /\ UNCHANGED <<shake, transferProgress, receivedFile, receiveBuffer,
                   receivedFileMetadata, receivedSize, fileHistory, wire, transfers,
                   nSends>>

\* a call of sendFile whose reader.onload awaits hashFile
SendTask(n, p, f) ==
    [k |-> "send", n |-> n, p |-> p, at |-> "s_hash", file |-> f,
     hash |-> << >>, offset |-> 0, enc |-> Encrypt(NoKey, << >>, << >>)]

\* a faulty variant of SendFile: the state of the data channel is not looked at
SendFileUnguarded(p) ==
    /\ nSends < MaxSends
    /\ nSends' = nSends + 1
    /\ IF file[p] = NoFile
       THEN /\ SetMessage(p, "Please select a file and ensure you are connected to a peer.")
            /\ UNCHANGED <<transferProgress, transfers>>
       ELSE IF symmetricKey[p] = NoKey
       THEN /\ SetMessage(p, "Error: Symmetric key not established.")
            /\ UNCHANGED <<transferProgress, transfers>>
       ELSE /\ SetMessage(p, "Encrypting and sending file...")
            /\ SetProgress(p, 0, 1)
            /\ transfers' = transfers \cup {SendTask(nSends + 1, p, file[p])}
    /\ UNCHANGED <<shake, file, receivedFile, receiveBuffer, receivedFileMetadata,
                   receivedSize, fileHistory, wire, nSelects>>

\* sendFile up to reader.readAsArrayBuffer(file); reader.onload then runs up
\* to `await hashFile`.
SendFile(p) ==
    /\ nSends < MaxSends
    /\ nSends' = nSends + 1
    /\ IF file[p] = NoFile \/ ~CanSend(p)
       THEN /\ SetMessage(p, "Please select a file and ensure you are connected to a peer.")
            /\ UNCHANGED <<transferProgress, transfers>>
       ELSE IF symmetricKey[p] = NoKey
       THEN /\ SetMessage(p, "Error: Symmetric key not established.")
            /\ UNCHANGED <<transferProgress, transfers>>
       ELSE /\ SetMessage(p, "Encrypting and sending file...")
            /\ SetProgress(p, 0, 1)
            /\ transfers' = transfers \cup {SendTask(nSends + 1, p, file[p])}
    /\ UNCHANGED <<shake, file, receivedFile, receiveBuffer, receivedFileMetadata,
                   receivedSize, fileHistory, wire, nSelects>>

\* the catch block of reader.onload
SendCatch(t) ==
    /\ SetMessage(t.p, "Error during file transfer. Check connection and try again.")
    /\ transfers' = transfers \ {t}

\* the transferRecord of a send (its recipientId and timestamp left out)
TransferRecord(t, hash) ==
    [senderId |-> t.p, fileName |-> t.file.name, fileHash |-> hash]

\* a faulty variant of SendHashed: the transferRecord is not written
SendHashedUnrecorded(t) ==
    /\ t.k = "send" /\ t.at = "s_hash"
    /\ transfers' = (transfers \ {t}) \cup
                       {[t EXCEPT !.at = "s_hist", !.hash = HashFile(t.file.data)]}
    /\ UNCHANGED <<shake, message, file, transferProgress, receivedFile, receiveBuffer,
                   receivedFileMetadata, receivedSize, fileHistory, wire, nSelects, nSends>>

\* hashFile resolved: addDoc of the transferRecord into the fileHistory
SendHashed(t) ==
    /\ t.k = "send" /\ t.at = "s_hash"
    /\ fileHistory' = [fileHistory EXCEPT ![t.p] =
                          Append(@, TransferRecord(t, HashFile(t.file.data)))]
    /\ transfers' = (transfers \ {t}) \cup
                       {[t EXCEPT !.at = "s_hist", !.hash = HashFile(t.file.data)]}
    /\ UNCHANGED <<shake, message, file, transferProgress, receivedFile, receiveBuffer,
                   receivedFileMetadata, receivedSize, wire, nSelects, nSends>>

\* The head of the chunk loop of send t at offset off: past the end of the file
\* the send is over; otherwise the chunk is encrypted under the key the ref
\* holds now, with a fresh iv, and crypto.subtle.encrypt rejects a null key.
ChunkLoop(t, off) ==
    IF off >= Len(t.file.data)
    THEN /\ SetMessage(t.p, "File sent successfully!")
         /\ transfers' = transfers \ {t}
    ELSE IF symmetricKey[t.p] = NoKey
    THEN SendCatch(t)
    ELSE /\ transfers' = (transfers \ {t}) \cup
                {[t EXCEPT !.at = "s_enc", !.offset = off,
                           !.enc = Encrypt(symmetricKey[t.p], <<t.n, off>>,
                                           Slice(t.file.data, off))]}
         /\ UNCHANGED message

\* addDoc resolved: the fileMetadata message is sent on the channel the ref
\* holds now, and the chunk loop is entered.
SendRecorded(t) ==
    /\ t.k = "send" /\ t.at = "s_hist"
    /\ IF CanSend(t.p)
       THEN /\ Send(t.p, [kind |-> "string", meta |-> Metadata(t.file, t.hash)])
            /\ ChunkLoop(t, 0)
       ELSE /\ SendCatch(t)
            /\ UNCHANGED wire
    /\ UNCHANGED <<shake, file, transferProgress, receivedFile, receiveBuffer,
                   receivedFileMetadata, receivedSize, fileHistory, nSelects, nSends>>

\* encrypt resolved: iv and ciphertext are sent as one binary message, the
\* offset advances by the chunk size, the progress is set, and the loop goes on.
SendEncrypted(t) ==
    /\ t.k = "send" /\ t.at = "s_enc"
    /\ IF CanSend(t.p)
       THEN /\ Send(t.p, [kind |-> "binary", iv |-> t.enc.iv, enc |-> t.enc])
            /\ SetProgress(t.p, (t.offset + ChunkSize) * 100, Len(t.file.data))
            /\ ChunkLoop(t, t.offset + ChunkSize)
       ELSE /\ SendCatch(t)
            /\ UNCHANGED <<wire, transferProgress>>
    /\ UNCHANGED <<shake, file, receivedFile, receiveBuffer, receivedFileMetadata,
                   receivedSize, fileHistory, nSelects, nSends>>

\* ----------------------------------------- reader.onload of src/App.jsx
\* reader.onload of src/App.jsx has no try block: an exception of send or a
\* rejection of encrypt rejects the promise of the call, which nothing handles.
SendRejected(t) ==
    /\ transfers' = transfers \ {t}
    /\ UNCHANGED message

\* the head of the chunk loop of src/App.jsx
ChunkLoopApp(t, off) ==
    IF off >= Len(t.file.data)
    THEN /\ SetMessage(t.p, "File sent")
         /\ transfers' = transfers \ {t}
    ELSE IF symmetricKey[t.p] = NoKey
    THEN SendRejected(t)
    ELSE /\ transfers' = (transfers \ {t}) \cup
                {[t EXCEPT !.at = "s_enc", !.offset = off,
                           !.enc = Encrypt(symmetricKey[t.p], <<t.n, off>>,
                                           Slice(t.file.data, off))]}
         /\ UNCHANGED message

\* addDoc resolved in reader.onload of src/App.jsx
SendRecordedApp(t) ==
    /\ t.k = "send" /\ t.at = "s_hist"
    /\ IF CanSend(t.p)
       THEN /\ Send(t.p, [kind |-> "string", meta |-> Metadata(t.file, t.hash)])
            /\ ChunkLoopApp(t, 0)
       ELSE /\ SendRejected(t)
            /\ UNCHANGED wire
    /\ UNCHANGED <<shake, file, transferProgress, receivedFile, receiveBuffer,
                   receivedFileMetadata, receivedSize, fileHistory, nSelects, nSends>>

\* encrypt resolved in reader.onload of src/App.jsx
SendEncryptedApp(t) ==
    /\ t.k = "send" /\ t.at = "s_enc"
    /\ IF CanSend(t.p)
       THEN /\ Send(t.p, [kind |-> "binary", iv |-> t.enc.iv, enc |-> t.enc])
            /\ SetProgress(t.p, (t.offset + ChunkSize) * 100, Len(t.file.data))
            /\ ChunkLoopApp(t, t.offset + ChunkSize)
       ELSE /\ SendRejected(t)
            /\ UNCHANGED <<wire, transferProgress>>
    /\ UNCHANGED <<shake, file, receivedFile, receiveBuffer, receivedFileMetadata,
                   receivedSize, fileHistory, nSelects, nSends>>

\* ------------------------------------------------- dataChannel.onmessage
\* a call of onmessage on a binary message that awaits crypto.subtle.decrypt
\* under the key the ref held at the call; held is the metadata the ref held
\* at the call, which the handler never reads
RecvTask(p, m, key) ==
    [k |-> "recv", p |-> p, at |-> "r_dec", msg |-> m, key |-> key,
     blob |-> << >>, meta |-> NoMeta, held |-> receivedFileMetadata[p]]

\* a faulty variant of RecvCatch: the error is swallowed
RecvCatchSilent(p) ==
    UNCHANGED message

\* the catch block of onmessage
RecvCatch(p) ==
    SetMessage(p, "Error decrypting file. Transfer failed.")

\* onmessage with a string that parses to a fileMetadata message
OnMetadata(p, m) ==
    /\ receivedFileMetadata' = [receivedFileMetadata EXCEPT ![p] = m.meta]
    /\ receiveBuffer' = [receiveBuffer EXCEPT ![p] = << >>]
    /\ receivedSize' = [receivedSize EXCEPT ![p] = 0]
    /\ SetMessage(p, "Receiving file: f...")
    /\ SetProgress(p, 0, 1)
    /\ UNCHANGED <<receivedFile, transfers>>

\* a faulty variant of OnBinary: decrypt is called without a look at the key
OnBinaryNoKeyCheck(p, m) ==
    /\ transfers' = transfers \cup {RecvTask(p, m, symmetricKey[p])}
    /\ UNCHANGED <<message, receivedFileMetadata, receiveBuffer, receivedSize,
                   receivedFile, transferProgress>>

\* onmessage with a binary message, up to `await crypto.subtle.decrypt`
OnBinary(p, m) ==
    /\ IF symmetricKey[p] = NoKey
       THEN /\ RecvCatch(p)
            /\ UNCHANGED transfers
       ELSE /\ transfers' = transfers \cup {RecvTask(p, m, symmetricKey[p])}
            /\ UNCHANGED message
    /\ UNCHANGED <<receivedFileMetadata, receiveBuffer, receivedSize, receivedFile,
                   transferProgress>>

\* the messages in flight to the channel object ch
InFlight(ch) == {i \in 1..Len(wire) : wire[i].to = ch}

\* the wire without its i-th message
Without(i) == SubSeq(wire, 1, i - 1) \o SubSeq(wire, i + 1, Len(wire))

\* The open channel object ch receives the oldest message in flight to it:
\* the onmessage handler setupDataChannelEvents installed runs on the refs of
\* the component that owns the channel.
OnMessage(ch) ==
    /\ ch.pc \in 1..Len(pcs) /\ ReadyState(ch) = "open"
    /\ InFlight(ch) # {}
    /\ LET i == CHOOSE j \in InFlight(ch) : \A l \in InFlight(ch) : j <= l
           p == pcs[ch.pc].owner
       IN /\ wire' = Without(i)
          /\ IF wire[i].m.kind = "string"
             THEN OnMetadata(p, wire[i].m)
             ELSE OnBinary(p, wire[i].m)
    /\ UNCHANGED <<shake, file, fileHistory, nSelects, nSends>>

\* decrypt settled: the plaintext is pushed and counted, the progress is set
\* against the metadata the ref holds now, and a transfer whose size is
\* reached is assembled and awaits hashFile.
RecvDecrypted(t) ==
    /\ t.k = "recv" /\ t.at = "r_dec"
    /\ IF CanDecrypt(t.key, t.msg.iv, t.msg.enc)
       THEN LET chunk == t.msg.enc.data
                size == receivedSize[t.p] + Len(chunk)
                buffer == Append(receiveBuffer[t.p], chunk)
                meta == receivedFileMetadata[t.p]
            IN /\ receiveBuffer' = [receiveBuffer EXCEPT ![t.p] = buffer]
               /\ receivedSize' = [receivedSize EXCEPT ![t.p] = size]
               /\ IF meta # NoMeta /\ meta.fileSize # 0
                  THEN SetProgress(t.p, size * 100, meta.fileSize)
                  ELSE UNCHANGED transferProgress
               /\ IF meta # NoMeta /\ size >= meta.fileSize
                  THEN transfers' = (transfers \ {t}) \cup
                          {[t EXCEPT !.at = "r_hash", !.blob = Concat(buffer),
                                     !.meta = meta]}
                  ELSE transfers' = transfers \ {t}
               /\ UNCHANGED message
       ELSE /\ RecvCatch(t.p)
            /\ transfers' = transfers \ {t}
            /\ UNCHANGED <<receiveBuffer, receivedSize, transferProgress>>
    /\ UNCHANGED <<shake, file, receivedFile, receivedFileMetadata, fileHistory, wire,
                   nSelects, nSends>>

\* a faulty variant of RecvHashed: the assembled file is exposed whatever its
\* digest is
RecvHashedUnverified(t) ==
    /\ t.k = "recv" /\ t.at = "r_hash"
    /\ SetMessage(t.p, "File received and verified successfully!")
    /\ receivedFile' = [receivedFile EXCEPT ![t.p] =
           [name |-> t.meta.fileName, type |-> t.meta.fileType, data |-> t.blob]]
    /\ transfers' = transfers \ {t}
    /\ UNCHANGED <<shake, file, transferProgress, receiveBuffer, receivedFileMetadata,
                   receivedSize, fileHistory, wire, nSelects, nSends>>

\* hashFile resolved: the digest is compared with the fileHash of the metadata
RecvHashed(t) ==
    /\ t.k = "recv" /\ t.at = "r_hash"
    /\ IF HashFile(t.blob) = t.meta.fileHash
       THEN /\ SetMessage(t.p, "File received and verified successfully!")
            /\ receivedFile' = [receivedFile EXCEPT ![t.p] =
                   [name |-> t.meta.fileName, type |-> t.meta.fileType, data |-> t.blob]]
       ELSE /\ SetMessage(t.p, "File transfer complete, but verification failed.")
            /\ receivedFile' = [receivedFile EXCEPT ![t.p] = NoFile]
    /\ transfers' = transfers \ {t}
    /\ UNCHANGED <<shake, file, transferProgress, receiveBuffer, receivedFileMetadata,
                   receivedSize, fileHistory, wire, nSelects, nSends>>

\* -------------------------------------------------------------- the system
TaskStep(t) ==
    \/ ConnectSetup(t)
    \/ ConnectCreateOffer(t)
    \/ ConnectSetLocal(t)
    \/ ConnectPublish(t)
    \/ OfferImported(t)
    \/ OfferKeyed(t)
    \/ OfferCreateAnswer(t)
    \/ OfferSetLocal(t)
    \/ OfferExport(t)
    \/ OfferPublish(t)
    \/ OfferDone(t)
    \/ AnswerKeyed(t)
    \/ AnswerDone(t)

\* The listener, the running invocations and the data channels opening.
Progress ==
    \/ \E p \in Peers : \E d \in mailbox[p] : Snapshot(p, d) /\ UNCHANGED xfer
    \/ \E t \in tasks : TaskStep(t) /\ UNCHANGED xfer
    \/ \E g \in 1..Len(pcs) : ChannelOpen(g) /\ UNCHANGED xfer
    \/ \E g \in 1..Len(pcs) : DataChannelEvent(g) /\ UNCHANGED xfer

\* The handshake with up to MaxConnects clicks on Connect, over a transport
\* whose channels can close.
Next ==
    \/ \E p \in Peers, q \in Peers : ConnectToPeer(p, q) /\ UNCHANGED xfer
    \/ Progress
    \/ \E g \in 1..Len(pcs), end \in {"own", "rem"} : ChannelClose(g, end) /\ UNCHANGED xfer

Spec == Init /\ [][Next]_vars

\* The handshake of at most MaxEnvConnects connects over a transport that
\* changes its connection state and fails.
NextTransport ==
    \/ \E p \in Peers, q \in Peers : nConnects < MaxEnvConnects /\ ConnectToPeer(p, q) /\ UNCHANGED xfer
    \/ Progress
    \/ \E g \in 1..Len(pcs), end \in {"own", "rem"} : ChannelClose(g, end) /\ UNCHANGED xfer
    \/ \E g \in 1..Len(pcs) : \E s \in NextConnStates(g) : ConnectionStateChange(g, s) /\ UNCHANGED xfer

SpecTransport == Init /\ [][NextTransport]_vars

\* The handshake of at most MaxEnvConnects connects over a relay that also
\* delivers ICE candidates and the documents of a third party.
NextRelay ==
    \/ \E p \in Peers, q \in Peers : nConnects < MaxEnvConnects /\ ConnectToPeer(p, q) /\ UNCHANGED xfer
    \/ Progress
    \/ \E g \in 1..Len(pcs) : IceCandidate(g) /\ UNCHANGED xfer
    \/ \E p \in Peers : \E d \in ForgedDocs(p) : Forge(p, d) /\ UNCHANGED xfer

SpecRelay == Init /\ [][NextRelay]_vars

\* The same, where the listener is notified of every document in a mailbox
\* and every pending promise settles.
SpecRelayFair == SpecRelay /\ WF_vars(Progress)

\* the handshake is over, every channel it created is open and both users see
\* an established connection
Established ==
    /\ tasks = {}
    /\ \A p \in Peers : mailbox[p] = {} /\ connectionStatus[p] = "connected"
    /\ \A g \in 1..Len(pcs) : ~CanOpen(g) /\ ~CanAnnounce(g)

TransferStep(t) ==
    \/ SendHashed(t)
    \/ SendRecorded(t)
    \/ SendEncrypted(t)
    \/ RecvDecrypted(t)
    \/ RecvHashed(t)

\* The handshake of at most MaxEnvConnects connects over a transport whose
\* channels can close, and the transfer of files over the open channels.
NextTransfer ==
    \/ \E p \in Peers, q \in Peers :
          nConnects < MaxEnvConnects /\ ConnectToPeer(p, q) /\ UNCHANGED xfer
    \/ Progress
    \/ \E g \in 1..Len(pcs), end \in {"own", "rem"} : ChannelClose(g, end) /\ UNCHANGED xfer
    \/ \E p \in Peers, f \in Files : nSelects < MaxEnvSelects /\ SelectFile(p, f)
    \/ \E p \in Peers : nSends < MaxEnvSends /\ SendFile(p)
    \/ \E t \in transfers : TransferStep(t)
    \/ \E g \in 1..Len(pcs), end \in {"own", "rem"} : OnMessage([pc |-> g, end |-> end])

SpecTransfer == Init /\ [][NextTransfer]_vars

\* The same over channels that stay open, where the users wait for the
\* handshake to end and then select and send files up to MaxSelects and
\* MaxSends times.
NextResend ==
    \/ \E p \in Peers, q \in Peers :
          nConnects < MaxEnvConnects /\ ConnectToPeer(p, q) /\ UNCHANGED xfer
    \/ Progress
    \/ \E p \in Peers, f \in Files : Established /\ SelectFile(p, f)
    \/ \E p \in Peers : Established /\ SendFile(p)
    \/ \E t \in transfers : TransferStep(t)
    \/ \E g \in 1..Len(pcs), end \in {"own", "rem"} : OnMessage([pc |-> g, end |-> end])

SpecResend == Init /\ [][NextResend]_vars

\* the steps of the calls of the component of src/App.jsx
TransferStepApp(t) ==
    \/ SendHashed(t)
    \/ SendRecordedApp(t)
    \/ SendEncryptedApp(t)
    \/ RecvDecrypted(t)
    \/ RecvHashed(t)

\* The transfer of a file between two components of src/App.jsx over a
\* transport whose channels can close.
NextTransferApp ==
    \/ \E p \in Peers, q \in Peers :
          nConnects < MaxEnvConnects /\ ConnectToPeer(p, q) /\ UNCHANGED xfer
    \/ Progress
    \/ \E g \in 1..Len(pcs), end \in {"own", "rem"} : ChannelClose(g, end) /\ UNCHANGED xfer
    \/ \E p \in Peers, f \in Files : nSelects < MaxEnvSelects /\ SelectFile(p, f)
    \/ \E p \in Peers : nSends < MaxEnvSends /\ SendFile(p)
    \/ \E t \in transfers : TransferStepApp(t)
    \/ \E g \in 1..Len(pcs), end \in {"own", "rem"} : OnMessage([pc |-> g, end |-> end])

SpecTransferApp == Init /\ [][NextTransferApp]_vars

\* The transfer of one file over an established connection while the relay
\* delivers a document of a third party.
NextForged ==
    \/ \E p \in Peers, q \in Peers :
          nConnects < MaxEnvConnects /\ ConnectToPeer(p, q) /\ UNCHANGED xfer
    \/ Progress
    \/ \E p \in Peers : \E d \in ForgedDocs(p) : Forge(p, d) /\ UNCHANGED xfer
    \/ \E p \in Peers, f \in Files :
          nSelects < MaxEnvSelects /\ Established /\ SelectFile(p, f)
    \/ \E p \in Peers : nSends < MaxEnvSends /\ SendFile(p)
    \/ \E t \in transfers : TransferStep(t)
    \/ \E g \in 1..Len(pcs), end \in {"own", "rem"} : OnMessage([pc |-> g, end |-> end])

SpecForged == Init /\ [][NextForged]_vars

\* every message in flight to an open channel is received
Deliver ==
    \E g \in 1..Len(pcs), end \in {"own", "rem"} : OnMessage([pc |-> g, end |-> end])

\* every pending promise of a reader.onload or onmessage call settles
Settle == \E t \in transfers : TransferStep(t)

\* The same, where the handshake proceeds, messages are delivered and
\* promises settle.
SpecResendFair ==
    SpecResend /\ WF_vars(Progress) /\ WF_vars(Deliver) /\ WF_vars(Settle)

\* ======================================================================
\* Properties
\* ======================================================================
\* the documents the mailbox of p ever held
Received(p) == mailbox[p] \cup handled[p]

Offers(p) == {d \in Received(p) : d.type = "offer"}
Answers(p) == {d \in Received(p) : d.type = "answer"}

\* nothing is pending: no invocation runs, the mailboxes are empty and no
\* data channel is about to open
Idle ==
    /\ tasks = {}
    /\ \A p \in Peers : mailbox[p] = {}
    /\ \A g \in 1..Len(pcs) : ~CanOpen(g) /\ ~CanAnnounce(g)

SomeChannelOpen(p) ==
    \E g \in 1..Len(pcs) :
        pcs[g].owner = p /\ (pcs[g].och = "open" \/ pcs[g].rch = "open")

\* A clicked Connect for "B" once, nobody else clicked, and no channel closed
OnlyAConnectsB ==
    /\ nConnects = 1 /\ nFaults = 0
    /\ \/ \E t \in tasks : t.k = "connect" /\ t.p = "A" /\ t.peer = "B"
       \/ Len(pcs) >= 1 /\ pcs[1].owner = "A" /\ pcs[1].peer = "B"

\* C1: in the scenario where A calls connect("B") once, the mailbox of B gets
\* at most one Offer, which carries A's public key and description, the
\* mailbox of A gets at most one Answer, which carries B's public key; a peer
\* with an open channel reports connected and both hold the same key; and
\* whenever nothing is pending there is exactly one Offer and one Answer,
\* both peers report connected and hold the same installed key.
C1_Handshake ==
    OnlyAConnectsB =>
        /\ Cardinality(Offers("B")) <= 1 /\ Offers("A") = {}
        /\ Cardinality(Answers("A")) <= 1 /\ Answers("B") = {}
        /\ \A d \in Offers("B") : d.sender = "A" /\ d.pub = 1 /\ d.sdp = 1
        /\ \A d \in Answers("A") : d.sender = "B" /\ d.pub = 2 /\ d.sdp = 2
        /\ \A p \in Peers : SomeChannelOpen(p) =>
              /\ connectionStatus[p] = "connected"
              /\ symmetricKey["A"] = symmetricKey["B"]
              /\ symmetricKey[p] # NoKey
        /\ Idle =>
              /\ Cardinality(Offers("B")) = 1 /\ Cardinality(Answers("A")) = 1
              /\ \A p \in Peers : connectionStatus[p] = "connected"
              /\ symmetricKey["A"] = symmetricKey["B"]
              /\ symmetricKey["A"] # NoKey

\* C1 witness: the scenario has run to its end with all four channels open
C1_Witness ==
    /\ OnlyAConnectsB /\ Idle
    /\ Len(pcs) = 2
    /\ \A g \in 1..2 : pcs[g].och = "open" /\ pcs[g].rch = "open"
    /\ \A p \in Peers : connectionStatus[p] = "connected"

\* the data channels the two refs hold belong to connections linked together
ConnectedToEachOther ==
    /\ \A p \in Peers : connectionStatus[p] = "connected"
    /\ Linked(dataChannel["A"].pc, dataChannel["B"].pc)
    /\ pcs[dataChannel["A"].pc].owner = "A"
    /\ pcs[dataChannel["B"].pc].owner = "B"

NoSignalingPending ==
    /\ tasks = {}
    /\ \A p \in Peers : mailbox[p] = {}

\* C2: whenever both peers report connected to each other and no signaling
\* message is pending, the keys installed on the two peers are identical.
C2_KeyAgreement ==
    (ConnectedToEachOther /\ NoSignalingPending) =>
        symmetricKey["A"] = symmetricKey["B"]

\* the documents whose handling deleteDoc was called for at p
Deleted(p) == DOMAIN delCount[p]

ListenTasks(p) == {t \in tasks : t.k = "listen" /\ t.p = p}

DeletedOnce ==
    \A p \in Peers :
        /\ \A d \in handled[p] : d \notin mailbox[p] /\ d \in Deleted(p)
        /\ \A d \in Deleted(p) : delCount[p][d] = 1 /\ d \in handled[p]

\* C3: a document whose handling has finished is no longer in the mailbox,
\* deleteDoc has been called on it exactly once and on no document that is
\* still being handled, whatever branch handled it; and every handler
\* invocation that is running eventually finishes.
C3_DeletedOnce ==
    /\ []DeletedOnce
    /\ \A p \in Peers : (ListenTasks(p) # {}) ~> (ListenTasks(p) = {})

\* C3 witness: an offer whose handling threw and an answer whose handling
\* succeeded have both been deleted once
C3_Witness ==
    /\ \E p \in Peers : \E d \in handled[p] :
          d.sender = Mallory /\ d.type = "offer" /\ delCount[p][d] = 1
    /\ \E p \in Peers : \E d \in handled[p] :
          d.sender \in Peers /\ d.type = "answer" /\ delCount[p][d] = 1

\* C4: no handler invocation ever runs on a document the owner wrote itself,
\* and the step that takes such a document out of the mailbox deletes it and
\* changes neither the status, the status line, the refs, the connections nor
\* the running invocations.
C4_SelfEcho ==
    /\ [](\A t \in tasks : t.k = "listen" => t.doc.sender # t.p)
    /\ [][\A p \in Peers : \A d \in mailbox[p] :
            (d.sender = p /\ d \notin mailbox'[p]) =>
                /\ d \in handled'[p] /\ d \in DOMAIN delCount'[p]
                /\ UNCHANGED <<connectionStatus, message, refs, pcs, tasks>>]_vars

\* C4 witness: a document of the owner has been read and deleted
C4_Witness ==
    \E p \in Peers : \E d \in handled[p] : d.sender = p /\ d \notin mailbox[p]

SignalingFailure == "Failed to process signaling message. See console."

\* an offer or answer whose public key cannot be imported or whose session
\* description the connection rejects
Malformed(d) ==
    d.type \in {"offer", "answer"} /\ (d.pub = BadKey \/ d.sdp = BadSdp)

\* C5: the step that ends the handling of a malformed offer or answer sets the
\* status line to the signaling failure text and deletes the document; and
\* whenever the mailbox holds documents after a failure was reported, the
\* mailbox is eventually empty again (they are all handled and deleted).
C5_ListenerSurvives ==
    /\ [][\A p \in Peers : \A d \in mailbox[p] :
            (Malformed(d) /\ DeliverLabel(p, d) \in {"offer", "answer"}
               /\ d \in handled'[p]) =>
                (message'[p] = SignalingFailure /\ d \notin mailbox'[p])]_vars
    /\ \A p \in Peers :
          (message[p] = SignalingFailure /\ mailbox[p] # {})
              ~> (mailbox[p] = {} /\ ListenTasks(p) = {})

\* C5 witness: a malformed offer has been handled, the failure is on the
\* status line, and the offer of a peer waits in the same mailbox
C5_Witness ==
    \E p \in Peers :
        /\ message[p] = SignalingFailure
        /\ \E d \in handled[p] : Malformed(d)
        /\ \E d \in mailbox[p] : d.type = "offer" /\ d.sender \in Peers

\* C6: an invocation of connectToPeer that started while the status was
\* connecting or connected never gets past its start: it creates no keypair,
\* no connection and no offer.
C6_ConnectOnlyWhenDisconnected ==
    \A t \in tasks :
        (t.k = "connect" /\ t.st0 # "disconnected") => t.at = "c_gen"

\* C7: connectionStatus is one of disconnected, connecting, connected.
C7_StatusDomain ==
    \A p \in Peers :
        connectionStatus[p] \in {"disconnected", "connecting", "connected"}

\* C8: a shared key is installed only while a transport is present.
C8_KeyOnlyWithTransport ==
    \A p \in Peers :
        symmetricKey[p] # NoKey => (peerConnection[p] # Null \/ dataChannel[p] # NoChan)

\* connection g reports a close or an error in this step
TransportFails(g) ==
    \/ pcs'[g].och = "closed" /\ pcs[g].och # "closed"
    \/ pcs'[g].rch = "closed" /\ pcs[g].rch # "closed"
    \/ /\ pcs'[g].conn \in {"failed", "disconnected", "closed"}
       /\ pcs'[g].conn # pcs[g].conn

\* C9: in every step in which a data channel closes or a connection changes
\* to failed, disconnected or closed, the owner's status becomes disconnected
\* and its shared key and transport refs are cleared.
C9_FailureTearsDown ==
    [][\A g \in 1..Len(pcs) :
          TransportFails(g) =>
              LET p == pcs[g].owner IN
              /\ connectionStatus'[p] = "disconnected"
              /\ symmetricKey'[p] = NoKey
              /\ peerConnection'[p] = Null
              /\ dataChannel'[p] = NoChan]_vars

DecryptFailure == "Error decrypting file. Transfer failed."

\* the i-th message in flight is binary and is received, in this step, by a
\* component that holds no shared key
ReceivedWithoutKey(i) ==
    /\ wire[i].m.kind = "binary"
    /\ symmetricKey[pcs[wire[i].to.pc].owner] = NoKey
    /\ wire' = Without(i)

\* C10: the step in which a binary message is received while no shared key
\* is installed starts no decryption, reports the failure on the status line
\* and leaves the receive buffer, the received size and the received file
\* as they were.
C10_NoKeyNoDecrypt ==
    [][\A i \in 1..Len(wire) :
          ReceivedWithoutKey(i) =>
              /\ message'[pcs[wire[i].to.pc].owner] = DecryptFailure
              /\ UNCHANGED <<transfers, receiveBuffer, receivedSize, receivedFile>>]_vars

\* C10 witness: a receiver that holds the metadata of a transfer and no key
\* has reported the failure
C10_Witness ==
    \E p \in Peers :
        /\ message[p] = DecryptFailure
        /\ symmetricKey[p] = NoKey
        /\ receivedFileMetadata[p] # NoMeta

\* ------------------------------------------------------------ file transfer
\* C11: the plaintext of a chunk that arrived while the receiver held another
\* metadata than it holds when the decryption settles, that is, a chunk that
\* arrived before the FileMetadata of the current transfer, is not added to
\* the receive buffer.
C11_BufferOfCurrentTransfer ==
    [][\A t \in transfers :
          (RecvDecrypted(t) /\ t.held # receivedFileMetadata[t.p])
              => UNCHANGED receiveBuffer]_vars

\* the calls of onmessage of receiver p that await the decryption of a chunk
\* of send n
Decrypting(p, n) ==
    {u \in transfers : u.k = "recv" /\ u.at = "r_dec" /\ u.p = p /\ u.msg.iv[1] = n}

\* C12: the chunk whose decryption settles is the one the sender emitted
\* first among the chunks of that send whose decryption is pending at the
\* receiver, so the chunks are consumed in emission order.
C12_EmissionOrder ==
    [][\A t \in transfers :
          RecvDecrypted(t) =>
              \A u \in Decrypting(t.p, t.msg.iv[1]) : t.msg.iv[2] <= u.msg.iv[2]]_vars

VerificationFailure == "File transfer complete, but verification failed."

\* the calls of onmessage of receiver p that await the digest of an assembled
\* file
Verifying(p) == {t \in transfers : t.k = "recv" /\ t.at = "r_hash" /\ t.p = p}

\* the digest of the file call t assembled equals the fileHash of the
\* metadata of its transfer
Verified(t) == HashFile(t.blob) = t.meta.fileHash

\* C13: a step that exposes a received file is the end of a call whose
\* assembled file has the digest its metadata announces, and exposes that
\* file; the end of a call whose digest differs clears the received file,
\* reports the failed verification and leaves the connection status, the
\* shared key and the transport as they were; and whatever was reported
\* before, the end of a call whose digest matches exposes its file.
C13_ExposedOnlyVerified ==
    [][/\ \A p \in Peers :
             (receivedFile'[p] # receivedFile[p] /\ receivedFile'[p] # NoFile) =>
                 \E t \in Verifying(p) :
                     /\ t \notin transfers'
                     /\ Verified(t)
                     /\ receivedFile'[p].data = t.blob
       /\ \A t \in transfers :
             RecvHashed(t) =>
                 IF Verified(t)
                 THEN receivedFile'[t.p].data = t.blob
                 ELSE /\ receivedFile'[t.p] = NoFile
                      /\ message'[t.p] = VerificationFailure
                      /\ UNCHANGED <<connectionStatus, refs>>]_vars

\* C13 witness: a receiver reported a failed verification and exposes no file,
\* is still connected under its key, and a later transfer to it is complete
\* and about to be verified with a matching digest
C13_Witness ==
    \E p \in Peers :
        /\ message[p] = VerificationFailure
        /\ receivedFile[p] = NoFile
        /\ connectionStatus[p] = "connected" /\ symmetricKey[p] # NoKey
        /\ \E t \in Verifying(p) : Verified(t)

\* C14: as long as one file was sent, over one channel and under the key both
\* sides share, a file the receiver assembled for a metadata of size N has
\* length N and the content of the file that was sent.
C14_RoundTrip ==
    nSends <= 1 =>
        \A p \in Peers : \A t \in Verifying(p) :
            /\ Len(t.blob) = t.meta.fileSize
            /\ t.blob = File(t.meta.fileSize).data

\* receiver p holds the metadata of an empty file and has counted no byte:
\* the received size has reached the announced file size
EmptyFileAnnounced(p) ==
    /\ receivedFileMetadata[p] # NoMeta
    /\ receivedFileMetadata[p].fileSize = 0
    /\ receivedSize[p] >= receivedFileMetadata[p].fileSize

\* the transfer to receiver p ended: a file is exposed, or the failed
\* verification is reported
Ended(p) == receivedFile[p] # NoFile \/ message[p] = VerificationFailure

\* C15: the completion of a transfer is detected also for an empty file,
\* whose announced size is reached as soon as the metadata is received: the
\* transfer eventually ends.
C15_CompletionDetected ==
    \A p \in Peers : EmptyFileAnnounced(p) ~> Ended(p)

\* the decryption call t awaits is rejected: the key the receiver held at the
\* call is not the key the chunk was encrypted under
DecryptFails(t) ==
    /\ t.k = "recv" /\ t.at = "r_dec"
    /\ ~CanDecrypt(t.key, t.msg.iv, t.msg.enc)

\* C16: the step in which the decryption of a chunk fails reports the failure
\* on the status line and ends the call; it leaves the connection status, the
\* shared key and the transport as they were, adds nothing to the receive
\* buffer or the received size, and exposes no file.
C16_DecryptFailureContained ==
    [][\A t \in transfers :
          (DecryptFails(t) /\ RecvDecrypted(t)) =>
              /\ message'[t.p] = DecryptFailure
              /\ transfers' = transfers \ {t}
              /\ UNCHANGED <<connectionStatus, refs, receiveBuffer, receivedSize,
                             receivedFile>>]_vars

\* C16 witness: a connected receiver that holds a key and the metadata of a
\* transfer has reported a failed decryption and exposes no file
C16_Witness ==
    \E p \in Peers :
        /\ message[p] = DecryptFailure
        /\ connectionStatus[p] = "connected" /\ symmetricKey[p] # NoKey
        /\ receivedFileMetadata[p] # NoMeta
        /\ receivedFile[p] = NoFile

TransferError == "Error during file transfer. Check connection and try again."

\* the running reader.onload calls
Sending == {t \in transfers : t.k = "send"}

\* the transferRecord of send t is in the history of its sender
Recorded(t) ==
    \E i \in 1..Len(fileHistory[t.p]) : fileHistory[t.p][i] = TransferRecord(t, t.hash)

\* the collection h2 holds the documents of h, in their order, and maybe more
Extends(h2, h) ==
    Len(h2) >= Len(h) /\ SubSeq(h2, 1, Len(h)) = h

\* C17: a FileMetadata message is sent only by a send that awaits the write of
\* its transferRecord, whose record is in the history already, and that send
\* then is in its chunk loop or over and never awaits that write again, so it
\* sends its metadata once; a chunk is sent only by a send in its chunk loop,
\* that is, after its metadata; and no step, a failure of the transfer
\* included, removes a record from a history.
C17_RecordThenMetadataThenChunks ==
    [][/\ \A p \in Peers : Extends(fileHistory'[p], fileHistory[p])
       /\ \A t \in Sending : \A u \in transfers' :
             (u.k = "send" /\ u.n = t.n /\ u.at = "s_hist") => t.at \in {"s_hash", "s_hist"}
       /\ Len(wire') > Len(wire) =>
             LET m == wire'[Len(wire')].m IN
             IF m.kind = "string"
             THEN \E t \in Sending :
                     /\ t.at = "s_hist"
                     /\ m.meta = Metadata(t.file, t.hash)
                     /\ Recorded(t)
                     /\ \A u \in transfers' :
                           (u.k = "send" /\ u.n = t.n) => u.at = "s_enc"
             ELSE \E t \in Sending : t.at = "s_enc" /\ m.enc = t.enc]_vars

\* C17 witness: a sender reported the failure of a transfer whose metadata
\* reached the receiver, and the record of the transfer is in its history
C17_Witness ==
    \E p \in Peers :
        /\ message[p] = TransferError
        /\ Len(fileHistory[p]) = 1
        /\ receivedFileMetadata[Other(p)] # NoMeta

\* C18: after a chunk is sent the progress of the sender is the fraction of
\* the bytes sent so far in the size of the file, times 100, and it is at
\* most 100.
C18_SenderProgress ==
    [][\A t \in Sending :
          (SendEncrypted(t) /\ Len(wire') > Len(wire)) =>
              LET sent == t.offset + Len(t.enc.data)
                  n == transferProgress'[t.p][1]
                  d == transferProgress'[t.p][2]
              IN /\ n * Len(t.file.data) = sent * 100 * d
                 /\ n <= 100 * d]_vars

\* the next step of send t fails: the ref holds no open channel to send on,
\* or no key to encrypt the next chunk under
SendFails(t) ==
    /\ t.at \in {"s_hist", "s_enc"}
    /\ \/ ~CanSend(t.p)
       \/ /\ symmetricKey[t.p] = NoKey
          /\ (IF t.at = "s_hist" THEN 0 ELSE t.offset + ChunkSize) < Len(t.file.data)

\* C19: the step in which a send or an encryption of a send fails ends the
\* call, so that no chunk follows and the send is not resumed, sends nothing,
\* and reports the transfer error on the status line.
C19_FailureAborts ==
    [][\A t \in Sending :
          (SendFails(t) /\ t \notin transfers') =>
              /\ \A u \in transfers' : ~(u.k = "send" /\ u.n = t.n)
              /\ wire' = wire
              /\ message'[t.p] = TransferError]_vars

\* C20: after the step in which a data channel of a component closes and its
\* onclose handler runs, the component keeps no partial file: its receive
\* buffer is empty, its received size is 0 and it retains no metadata.
C20_CloseDiscardsPartialFile ==
    [][\A g \in 1..Len(pcs), end \in {"own", "rem"} :
          ChannelClose(g, end) =>
              /\ receiveBuffer'[pcs[g].owner] = << >>
              /\ receivedSize'[pcs[g].owner] = 0
              /\ receivedFileMetadata'[pcs[g].owner] = NoMeta]_vars

\* ---------------------------------------------------------------- sessions
\* the handling of document d, an offer or an answer for p, ends in this step
HandlingEnds(p, d) ==
    /\ DeliverLabel(p, d) \in {"offer", "answer"}
    /\ d \notin handled[p] /\ d \in handled'[p]

\* C21: when the handling of an offer or an answer whose public key cannot be
\* imported ends, the session is back in disconnected.
C21_BadKeyDisconnects ==
    [][\A p \in Peers : \A d \in mailbox[p] :
          (d.pub = BadKey /\ HandlingEnds(p, d)) =>
              connectionStatus'[p] = "disconnected"]_vars

\* a step of the handling of document d by the listener of p: the callback
\* starts on d, or a call that handles d goes on or ends
HandlingStep(p, d) ==
    \/ \E t \in tasks' \ tasks : t.k = "listen" /\ t.p = p /\ t.doc = d
    \/ \E t \in tasks \ tasks' : t.k = "listen" /\ t.p = p /\ t.doc = d
    \/ d \notin handled[p] /\ d \in handled'[p]

\* C22: no step of the handling of a signaling message whose public key
\* cannot be imported changes the keypair, the shared key, the transport or
\* the connection status of a session that is connected.
C22_FailedSignalingKeepsSession ==
    [][\A p \in Peers : \A d \in mailbox[p] :
          (connectionStatus[p] = "connected" /\ d.pub = BadKey /\ HandlingStep(p, d)) =>
              /\ cryptoKeyPair'[p] = cryptoKeyPair[p]
              /\ symmetricKey'[p] = symmetricKey[p]
              /\ peerConnection'[p] = peerConnection[p]
              /\ dataChannel'[p] = dataChannel[p]
              /\ connectionStatus'[p] = connectionStatus[p]]_vars

\* C23: the handling of an answer that arrived while the session was not
\* connecting installs no shared key and applies no description to the
\* connection.
C23_AnswerOnlyWhenConnecting ==
    [][\A t \in tasks :
          (t.k = "listen" /\ t.doc.type = "answer" /\ t.st0 # "connecting"
             /\ AnswerKeyed(t)) =>
              /\ symmetricKey' = symmetricKey
              /\ pcs' = pcs]_vars

\* C24: an offer that arrives while the session is connecting or connected
\* does not take the answerer transition: the step in which the listener
\* starts on it replaces neither the keypair nor the connection nor the data
\* channel, and its handling installs no shared key.
C24_OfferOnlyWhenDisconnected ==
    [][/\ \A p \in Peers : \A d \in mailbox[p] :
             (connectionStatus[p] \in {"connecting", "connected"} /\ SnapshotOffer(p, d)) =>
                 UNCHANGED <<cryptoKeyPair, peerConnection, dataChannel>>
       /\ \A t \in tasks :
             (t.k = "listen" /\ t.doc.type = "offer"
                /\ t.st0 \in {"connecting", "connected"} /\ OfferKeyed(t)) =>
                 symmetricKey' = symmetricKey]_vars

\* C25: the listener of a session starts on a mailbox change only when the
\* handling of no other change of that mailbox is under way.
C25_OneChangeAtATime ==
    [][\A p \in Peers : \A d \in mailbox[p] :
          (Deliverable(p, d) /\ HandlingStep(p, d)) => ListenTasks(p) = {}]_vars

\* C26: a session whose connection status is connected holds a shared key.
C26_ConnectedHasKey ==
    \A p \in Peers : connectionStatus[p] = "connected" => symmetricKey[p] # NoKey

\* A data channel of connection g goes from open to closed.
ChannelCloses(g) ==
    \/ pcs[g].och = "open" /\ pcs'[g].och = "closed"
    \/ pcs[g].rch = "open" /\ pcs'[g].rch = "closed"

\* Connection g was replaced: setupPeerConnection ran again and the ref of
\* its owner holds a newer connection.
Superseded(g) ==
    /\ peerConnection[pcs[g].owner] # Null
    /\ peerConnection[pcs[g].owner] # g

\* C27: when a data channel of a superseded connection closes, the session
\* that replaced it keeps its transport references, its shared key and its
\* connection status.
C27_StaleCloseKeepsSession ==
    [][\A g \in 1..Len(pcs) :
          (ChannelCloses(g) /\ Superseded(g)) =>
              LET p == pcs[g].owner IN
              /\ peerConnection'[p] = peerConnection[p]
              /\ dataChannel'[p] = dataChannel[p]
              /\ symmetricKey'[p] = symmetricKey[p]
              /\ connectionStatus'[p] = connectionStatus[p]]_vars

\* ------------------------------------------------------ sendFile and close
\* the two guards of sendFile pass: a file is selected, the ref holds an open
\* data channel and a shared key is installed
SendGuard(p) ==
    file[p] # NoFile /\ CanSend(p) /\ symmetricKey[p] # NoKey

\* a data channel of a connection of p has closed
TransportClosed(p) ==
    \E g \in 1..Len(pcs) :
        pcs[g].owner = p /\ (pcs[g].och = "closed" \/ pcs[g].rch = "closed")

=============================================================================
